---- MODULE Spec2Model ----
(***************************************************************************)
(* bep/imagemeta: the top-level dispatcher Decode, the stream reader's     *)
(* out-of-band stop, the PNG / TIFF / WebP walkers and the EXIF, IPTC and  *)
(* XMP sub-decoders, as a state machine.                                   *)
(*                                                                         *)
(* The input file is not modelled byte by byte: every read draws its       *)
(* outcome (ok, end of file, unexpected end of file, I/O error) and every  *)
(* value that steers a branch (chunk type, tag kind, counts) from a small  *)
(* set, so every run of the model is the run of the code on some input.    *)
(* The JPEG walker is part of the model for the calls that ask for XMP.    *)
(*                                                                         *)
(* Four parts of the code have a specification of their own, each over a   *)
(* variable of its own:                                                    *)
(*   RatSpec   the rational numbers (NewRat, String, UnmarshalText) and    *)
(*             the conversion of the EXIF rational types (conv);           *)
(*   BufSpec   bufferedReader and the pool of buffers (buf);               *)
(*   IPTCSpec  the 8BIM blocks and the records of the IPTC decoder, with   *)
(*             the reader's place kept in bytes (iptc);                    *)
(*   HEIFSpec  the box scan of the HEIF / AVIF walker, over files kept     *)
(*             byte by byte (heif).                                        *)
(***************************************************************************)
EXTENDS Integers, Sequences, FiniteSets, TLC

VARIABLES opts, cpc, err, w, hist, conv, buf, iptc, heif

vars == <<opts, cpc, err, w, hist, conv, buf, iptc, heif>>

----------------------------------------------------------------------------
(* Bounds of the model. *)

MaxChunks == 2    \* chunks of the file that a walker loop dispatches
MaxEntries == 2   \* IFD entries, IPTC records and blocks, XMP tags of the file

----------------------------------------------------------------------------
(* Sources, formats, errors. *)

EXIF == "EXIF"
IPTC == "IPTC"
XMP == "XMP"
CONFIG == "CONFIG"

AllSources == {EXIF, IPTC, XMP, CONFIG}

\* Source.Has for a single-bit source, Source.Remove, Source.IsZero.
\* (HasAny: Has testing the receiver alone, "s != 0".)
HasAny(t, source) == t # {}
Has(t, source) == source \in t
Remove(t, source) == t \ {source}
IsZero(t) == t = {}

defaultLimitNumTags == 5000

\* An error value: k names the error, inv says that it is (wrapped in) an
\* *InvalidFormatError, d is the duration printed in a timeout message.
Error(k) == [k |-> k, inv |-> FALSE, d |-> 0]

nil == Error("nil")
ErrStopWalking == Error("stop walking")
errStop == Error("stop")
EOF == Error("EOF")
ErrUnexpectedEOF == Error("unexpected EOF")
ErrIO == Error("read error")
ErrUser == Error("callback error")
ErrRuntime == Error("runtime error")
ErrHex == Error("decoding hex")
ErrExpectedEOF == Error("expected EOF after XMP")
ErrNoReader == Error("no reader provided")
ErrNoFormat == Error("no image format provided")
ErrUnsupported == Error("unsupported image format")
errInvalidFormat == [k |-> "invalid format", inv |-> TRUE, d |-> 0]

ErrTimeout(D) == [k |-> "timed out after", inv |-> FALSE, d |-> D]

newInvalidFormatError(e) == [e EXCEPT !.inv = TRUE]

IsInvalidFormat(e) == e.inv

\* strings.Contains(err.Error(), "unexpected EOF")
isInvalidFormatErrorCandidate(e) == e.k = "unexpected EOF"

----------------------------------------------------------------------------
(* Options of a Decode call and the per-format source masks. *)

Formats == {"Auto", "JPEG", "TIFF", "PNG", "WebP", "HEIF", "AVIF", "Other"}

\* The formats whose walkers are part of this model.
Walkers == {"PNG", "TIFF", "WebP"}

\* The JPEG walker is part of it for the calls that ask for XMP.
JPEGMasks == {{XMP}, {EXIF, XMP}}

Limits == {0, 1}
Timeouts == {0, 5}
Masks == {{}, {EXIF}, {IPTC}, {XMP, CONFIG}, {CONFIG}, AllSources}

\* "Remove sources not supported by the format."
FormatSources(f) ==
    CASE f \in {"JPEG", "TIFF", "PNG"} -> {EXIF, XMP, IPTC, CONFIG}
      [] f \in {"WebP", "HEIF", "AVIF"} -> {EXIF, XMP, CONFIG}
      [] OTHER -> {}

\* The options a caller can pass.  R says that a reader is given;
\* ShouldHandleTag is "nil" (the default predicate is installed) or "user".
Options ==
    [R : {TRUE}, ImageFormat : Walkers, Sources : Masks,
     LimitNumTags : Limits, Timeout : Timeouts,
     ShouldHandleTag : {"user"}, HandleXMP : {FALSE}]
    \cup
    [R : {TRUE}, ImageFormat : Walkers, Sources : {AllSources},
     LimitNumTags : {0}, Timeout : {0},
     ShouldHandleTag : {"nil", "user"}, HandleXMP : BOOLEAN]
    \cup
    [R : {TRUE}, ImageFormat : {"JPEG"}, Sources : JPEGMasks,
     LimitNumTags : {0}, Timeout : {0},
     ShouldHandleTag : {"user"}, HandleXMP : BOOLEAN]
    \cup
    [R : BOOLEAN, ImageFormat : {"Auto", "Other", "PNG"}, Sources : {{}},
     LimitNumTags : {0}, Timeout : {0},
     ShouldHandleTag : {"nil"}, HandleXMP : {FALSE}]

----------------------------------------------------------------------------
(* The state of the walker and of the stream readers. *)

Readers == {"base", "exif", "iptc"}

\* A frame of the walker's call stack: f is the function, pc the place in
\* it, rd the streamReader it reads from, root the top-level IFD (0 or 1)
\* of an EXIF namespace.
Frame(f, pc, rd) == [f |-> f, pc |-> pc, rd |-> rd, root |-> 0, nested |-> FALSE]

\* chunks and entries count what the walker has met in the file so far.
\* result is Decode's named result, which base.result points to: "zero",
\* or "config" once the walker has stored an ImageConfig in it.
\* noEXIF says that the WebP walker has read a VP8X chunk whose EXIF flag
\* is clear.
\* cursor, left and over tell what the step just taken did with an IFD
\* entry, if it was done with one:
\*   cursor  the count of bytes between the start of the entry and the
\*           place of the reader when decodeTag was done with it (0: the
\*           step was not done with an entry);
\*   left    the IFD kind of a pointer tag that was left alone because the
\*           kind is in seenIFDs, else "none";
\*   over    "embedded": the value of an entry 0x02bc or 0x83bb longer than
\*           LimitTagSize was copied into a buffer; "exif": the value of
\*           another entry longer than LimitTagSize was read or handed to
\*           the callback; "no" otherwise.
InitW ==
    [wpc |-> "idle", wres |-> nil, stack |-> <<>>,
     tagCount |-> 0, sourceSet |-> {}, chunks |-> 0, entries |-> 0,
     isEOF |-> [r \in Readers |-> FALSE], readErr |-> nil,
     seenIFDs |-> {}, stringSlices |-> {}, errc |-> <<>>, result |-> "zero",
     cursor |-> 0, left |-> "none", over |-> "no", noEXIF |-> FALSE]

\* The IFD kinds of exifIFDPointers.
IFDPointers == {"ExifIFDP", "GPSInfoIFD", "InteroperabilityIFD"}

\* History: what the callbacks and the caller's reader have seen.
\*   mask        the Sources the caller passed
\*   nHandle     the calls of HandleTag
\*   delivered   the sources of the tags HandleTag was called with
\*   last        per source, the place in the file (the count of entries
\*               met when it was read) of the tag delivered last by the
\*               decoder at work
\*   disorder    a tag was delivered after one of its source that lies
\*               behind it in the file
\*   stopped     a HandleTag call has returned ErrStopWalking
\*   afterStop   what the walker did after that
\*   overflow    the tag count has passed the limit
\*   timedOut    Decode has returned because of the timer
\*   late        what the walker did after Decode had returned
\*   xmp         what became of the XMP packet of the file when a custom
\*               handler is given: "none" not met, "lost" read past as
\*               part of another segment, "all" read to its end by the
\*               handler, which returned nil, "part" left with bytes unread
\*               by the handler, which returned nil
\*   ifds        per IFD kind that a pointer tag names, in the EXIF pass at
\*               work: "no" not entered, "entered", "twice" entered again
\*   xmpAsEXIF   handleEXIF was given the APP1 segment that holds the XMP
\*               packet while XMP was in sourceSet
\*   sent        the number of values the worker has sent on errc
\*   stopIn      "exif": the walker was ended by an errStop raised while
\*               the EXIF decoder was at work; "other": by one raised
\*               elsewhere
\*   res         the DecodeResult the caller was handed ("none" before)
\*   race        the worker has written a variable that Decode's task
\*               reads with no send or receive between the two accesses
InitHist ==
    [mask |-> {}, nHandle |-> 0, delivered |-> {}, last |-> [x \in AllSources |-> 0],
     disorder |-> FALSE, stopped |-> FALSE, afterStop |-> {},
     overflow |-> FALSE, timedOut |-> FALSE, late |-> {},
     xmp |-> "none", ifds |-> [k \in IFDPointers |-> "no"], stopIn |-> "none", sent |-> 0, xmpAsEXIF |-> FALSE,
     res |-> "none", race |-> FALSE]

\* No value conversion is under way.
NoConv == [pc |-> "none"]
NoBuf == [pc |-> "none"]
NoIPTC == [pc |-> "none"]
NoHEIF == [pc |-> "none"]

Init ==
    /\ opts \in Options
    /\ cpc = "start"
    /\ err = nil
    /\ w = InitW
    /\ hist = [InitHist EXCEPT !.mask = opts.Sources]
    /\ conv = NoConv
    /\ buf = NoBuf
    /\ iptc = NoIPTC
    /\ heif = NoHEIF

----------------------------------------------------------------------------
(* Decode: the normalisation of the terminal error. *)

\* baseStreamingDecoder.streamErr; base.err is never assigned.
streamErr(ww) == ww.readErr

\* (errFinal without its errStop case.)
errFinalKeepingStop(err2, hasBase, ww) ==
    LET e1 == IF err2 = nil /\ hasBase THEN streamErr(ww) ELSE err2 IN
    IF e1 = nil THEN nil
    ELSE IF e1 = ErrStopWalking THEN nil
    ELSE IF e1 = EOF THEN nil
    ELSE IF isInvalidFormatErrorCandidate(e1) THEN newInvalidFormatError(e1)
    ELSE e1

\* (errFinal without its ErrStopWalking case.)
errFinalKeepingStopWalking(err2, hasBase, ww) ==
    LET e1 == IF err2 = nil /\ hasBase THEN streamErr(ww) ELSE err2 IN
    IF e1 = nil THEN nil
    ELSE IF e1 = errStop THEN nil
    ELSE IF e1 = EOF THEN nil
    ELSE IF isInvalidFormatErrorCandidate(e1) THEN newInvalidFormatError(e1)
    ELSE e1

errFinal(err2, hasBase, ww) ==
    LET e1 == IF err2 = nil /\ hasBase THEN streamErr(ww) ELSE err2 IN
    IF e1 = nil THEN nil
    ELSE IF e1 = ErrStopWalking THEN nil
    ELSE IF e1 = errStop THEN nil
    ELSE IF e1 = EOF THEN nil
    ELSE IF isInvalidFormatErrorCandidate(e1) THEN newInvalidFormatError(e1)
    ELSE e1

\* r is the recovered panic value, always an error value in this model.
errFromRecover(r) ==
    IF r = nil THEN nil
    ELSE IF isInvalidFormatErrorCandidate(r) THEN newInvalidFormatError(r)
    ELSE r

----------------------------------------------------------------------------
(* The walker as a function from a state s = [w, h] to the set of states   *)
(* one step can lead to.                                                   *)

Top(s) == s.w.stack[Len(s.w.stack)]
Pop(stack) == SubSeq(stack, 1, Len(stack) - 1)
SetTop(s, fr) == [s EXCEPT !.w.stack[Len(s.w.stack)] = fr]
Push(s, fr) == [s EXCEPT !.w.stack = Append(@, fr)]

Running(s) == s.w.wpc = "running"

\* The walker has ended: its frames and what only they refer to (the
\* streamReaders over buffers, seenIFDs, stringSlices, sourceSet) are gone.
Ended(s, how, e) ==
    [s EXCEPT !.w.wpc = how, !.w.wres = e, !.w.stack = <<>>,
              !.w.isEOF = [r \in Readers |-> r = "base" /\ s.w.isEOF[r]],
              !.w.seenIFDs = {}, !.w.stringSlices = {}, !.w.sourceSet = {},
              !.w.chunks = 0, !.w.entries = 0, !.w.cursor = 0, !.w.left = "none",
              !.w.noEXIF = FALSE,
              !.h.last = [x \in AllSources |-> 0],
              !.h.ifds = [k \in IFDPointers |-> "no"]]

\* A panic unwinds the whole walker: no frame of these walkers recovers.
Panic(s, p) == Ended(s, "panicked", p)

\* dec.decode() returns e.  A non-nil error returned by a sub-decoder is
\* handed up unchanged by every caller ("if err != nil { return err }");
\* the frames it passes do nothing but hand it up.
Return(s, e) == Ended(s, "returned", e)

\* preservePos: when its function returns the reader is back where it
\* was at the call, which in decodeTag is at the end of the entry.
preservePos(s) == [s EXCEPT !.w.cursor = 12]

\* The frame fr has returned: the decoder it belongs to is gone, and an
\* IFD entered through a pointer tag (decodeTagsAt) gives the place back.
Drop(s, fr) ==
    CASE fr.f = "exif" -> [s EXCEPT !.w.isEOF["exif"] = FALSE, !.w.seenIFDs = {},
                                    !.w.cursor = 0,
                                    !.h.last[EXIF] = 0,
                                    !.h.ifds = [k \in IFDPointers |-> "no"]]
      [] fr.f = "ifd" /\ fr.nested -> preservePos(s)
      [] fr.f \in {"iptcR", "iptcB"} -> [s EXCEPT !.w.isEOF["iptc"] = FALSE,
                                                  !.h.last[IPTC] = 0]
      [] fr.f = "xmp" -> [s EXCEPT !.h.last[XMP] = 0]
      [] OTHER -> s

\* A frame that has nothing left to do but to return nil to its caller.
Finished(fr) == fr.pc = "end"

\* The top frame returns nil: control goes back to the caller's frame, and
\* on from there while the frames have nothing left to do.
RECURSIVE ReturnNil(_)
ReturnNil(s) ==
    LET st == Pop(s.w.stack) IN
    IF st = <<>> THEN Return(s, nil)
    ELSE LET s2 == [Drop(s, Top(s)) EXCEPT !.w.stack = st] IN
         IF Finished(st[Len(st)]) THEN ReturnNil(s2) ELSE s2

\* The walker does op: "read" or "seek" on the caller's reader, "callback"
\* a call of one of the caller's functions.  What it does after
\* Decode has returned is kept in late, what it does after a callback has
\* asked it to stop in afterStop.
Did(s, op) ==
    [s EXCEPT !.h.late = IF cpc = "done" THEN @ \cup {op} ELSE @,
              !.h.afterStop = IF s.h.stopped THEN @ \cup {op} ELSE @]

\* streamReader.stop on reader rd: one silent EOF is allowed, then the
\* error is kept in readErr and errStop is raised.  Only the readErr of the
\* base reader is ever looked at (streamErr).
stop(s, rd, e) ==
    IF e = EOF /\ ~s.w.isEOF[rd]
    THEN [s EXCEPT !.w.isEOF[rd] = TRUE]
    ELSE LET inEXIF == \E i \in 1..Len(s.w.stack) : s.w.stack[i].f \in {"exif", "ifd"}
             s1 == [s EXCEPT !.h.stopIn = IF inEXIF THEN "exif" ELSE "other"]
         IN  Panic(IF rd = "base" /\ e # nil THEN [s1 EXCEPT !.w.readErr = e] ELSE s1,
                   errStop)

\* The outcomes of a run of reads (readNFromRIntoBuf) on reader rd: all ok,
\* end of file at the last read, end of file at an earlier read, a short
\* read (io.ErrUnexpectedEOF), an I/O error of the caller's reader.
\* kind: "byte" one read of one byte, "one" one read, "many" several reads.
ReadOuts(rd, kind) ==
    {"ok", "eofLast"}
    \cup (IF kind # "byte" THEN {"ueof"} ELSE {})
    \cup (IF kind = "many" THEN {"eofEarly"} ELSE {})
    \cup (IF rd = "base" THEN {"ioerr"} ELSE {})

read(s0, rd, out) ==
    LET s == IF rd = "base" THEN Did(s0, "read") ELSE s0 IN
    CASE out = "ok" -> s
      [] out = "eofLast" -> stop(s, rd, EOF)
      [] out = "eofEarly" ->
           LET s1 == stop(s, rd, EOF) IN
           IF Running(s1) THEN stop(s1, rd, EOF) ELSE s1
      [] out = "ueof" -> stop(s, rd, ErrUnexpectedEOF)
      [] out = "ioerr" -> stop(s, rd, ErrIO)

\* streamReader.bufferedReader copies the next bytes of rd into a pooled
\* buffer: io.CopyN returns io.EOF when the reader ends early, or the
\* reader's own error.  The set of [s, e] it can leave, e the error.
bufferedReader(s, rd) ==
    LET s1 == IF rd = "base" THEN Did(s, "read") ELSE s IN
    {[s |-> s1, e |-> nil], [s |-> s1, e |-> EOF]}
    \cup (IF rd = "base" THEN {[s |-> s1, e |-> ErrIO]} ELSE {})

\* A new streamReader (newStreamReader) over a fresh buffer.
newStreamReader(s, rd) == [s EXCEPT !.w.isEOF[rd] = FALSE]

\* streamReader.seek / skip / pos on reader rd; a failing seek of these
\* walkers' offsets is not modelled.
seek(s, rd) == IF rd = "base" THEN Did(s, "seek") ELSE s

\* F applied to every state of S in which the walker still runs.
Then(S, F(_)) == UNION { IF Running(x) THEN F(x) ELSE {x} : x \in S }

Reads(s, rd, kind) == { read(s, rd, out) : out \in ReadOuts(rd, kind) }

\* The file holds one more entry (IFD entry, IPTC record or block, XMP tag)
\* where the walker stands, and the walker takes it.
More(s) == s.w.entries < MaxEntries
Entry(s) == [s EXCEPT !.w.entries = @ + 1]

----------------------------------------------------------------------------
(* The callbacks. *)

\* The predicate installed when opts.ShouldHandleTag is nil, and the answers
\* of a caller's predicate.
shouldHandleTag(source, root) ==
    IF opts.ShouldHandleTag = "nil"
    THEN {source # EXIF \/ root = 0}
    ELSE BOOLEAN

\* (The counting wrapper letting one tag more than the limit through.)
ShouldHandleTagOffByOne(s, source, root) ==
    LET tagCount == s.w.tagCount + 1
        s1 == Did([s EXCEPT !.w.tagCount = tagCount], "callback")
    IN  IF tagCount > opts.LimitNumTags + 1
        THEN {[s |-> Panic([s1 EXCEPT !.h.overflow = TRUE], ErrStopWalking), r |-> FALSE]}
        ELSE {[s |-> s1, r |-> r] : r \in shouldHandleTag(source, root)}

\* The counting wrapper around the predicate: the set of [s, r] it can
\* leave, r its answer; in a state that panicked r means nothing.  tagCount
\* is a uint32; no input of these walkers offers 2^32 tags.
ShouldHandleTag(s, source, root) ==
    LET tagCount == s.w.tagCount + 1
        s1 == Did([s EXCEPT !.w.tagCount = tagCount], "callback")
    IN  IF tagCount > opts.LimitNumTags
        THEN {[s |-> Panic([s1 EXCEPT !.h.overflow = TRUE], ErrStopWalking), r |-> FALSE]}
        ELSE {[s |-> s1, r |-> r] : r \in shouldHandleTag(source, root)}

\* What a HandleTag callback can return.
HandleTagResults == {nil, ErrStopWalking, ErrUser}

\* (HandleTag with ErrStopWalking taken for success at the call site.)
HandleTagIgnoringStop(s, source, pos) ==
    LET s1 == Did([s EXCEPT !.h.nHandle = @ + 1,
                            !.h.delivered = @ \cup {source},
                            !.h.last[source] = pos,
                            !.h.disorder = @ \/ pos < s.h.last[source]], "callback")
    IN  { IF e = nil THEN s1
          ELSE IF e = ErrStopWalking THEN [s1 EXCEPT !.h.stopped = TRUE]
          ELSE Return(s1, e)
          : e \in HandleTagResults }

\* opts.HandleTag(ti) followed by "if err != nil { return err }"; pos is
\* the place of the tag in the file.
HandleTag(s, source, pos) ==
    LET s1 == Did([s EXCEPT !.h.nHandle = @ + 1,
                            !.h.delivered = @ \cup {source},
                            !.h.last[source] = pos,
                            !.h.disorder = @ \/ pos < s.h.last[source]], "callback")
    IN  { IF e = nil THEN s1
          ELSE Return([s1 EXCEPT !.h.stopped = @ \/ e = ErrStopWalking], e)
          : e \in HandleTagResults }

----------------------------------------------------------------------------
(* The XMP decoder. *)

\* What a HandleXMP callback can return.
HandleXMPResults == {nil, ErrUser}

\* decodeXMP up to the loop over the tags of the packet.  The packet is read
\* from a buffer or a section of the file, by the XML decoder or the caller.
decodeXMP(s) ==
    LET fr == Top(s) IN
    IF opts.HandleXMP
    THEN { IF e # nil THEN Return(Did(s, "callback"), e)
           ELSE IF atEOF THEN ReturnNil([Did(s, "callback") EXCEPT !.h.xmp = "all"])
           ELSE Return([Did(s, "callback") EXCEPT !.h.xmp = "part"], ErrExpectedEOF)
           : e \in HandleXMPResults, atEOF \in BOOLEAN }
    ELSE {Return(s, newInvalidFormatError(Error("decoding XMP")))}
         \cup {SetTop(s, [fr EXCEPT !.pc = "item"])}

\* The loop over the attributes and child elements of the packet: the
\* packet ends, or holds one more tag.
decodeXMPItem(s) ==
    {ReturnNil(s)}
    \cup (IF More(s)
          THEN UNION { IF ~Running(o.s) \/ ~o.r THEN {o.s}
                       ELSE HandleTag(o.s, XMP, o.s.w.entries)
                       : o \in ShouldHandleTag(Entry(s), XMP, 0) }
          ELSE {})

----------------------------------------------------------------------------
(* The IPTC decoder. *)

\* handlestringSlices: the repeatable fields that are kept are delivered
\* when the packet ends; here the frame enters the loop over them.
handlestringSlices(s) ==
    IF s.w.stringSlices = {} THEN ReturnNil(s)
    ELSE SetTop(s, [Top(s) EXCEPT !.pc = "flush"])

\* One pass of the loop of handlestringSlices, "for ti, values := range m":
\* the iteration order of a Go map is not specified, any key left comes
\* next.
handlestringSlice(s) ==
    UNION { Then(HandleTag([s EXCEPT !.w.stringSlices = @ \ {ti}], IPTC, ti),
                 LAMBDA sx : {IF sx.w.stringSlices = {} THEN ReturnNil(sx) ELSE sx})
            : ti \in s.w.stringSlices }

\* decodeRecord.  A repeatable field is appended to stringSlices[ti]: ti
\* is a new key of the map, named here by the place of this record, or a
\* key the map holds.
decodeRecord(s) ==
    LET fr == Top(s)
        rd == fr.rd
        done(sx) == SetTop(sx, [fr EXCEPT !.pc = "marker"])
        keep(sx) == {done([sx EXCEPT !.w.stringSlices = @ \cup {sx.w.entries}])}
                    \cup (IF sx.w.stringSlices # {} THEN {done(sx)} ELSE {})
        value(sx, repeatable) ==
            Then(Reads(sx, rd, "one"),
                 LAMBDA sy : IF repeatable THEN keep(sy)
                             ELSE Then(HandleTag(sy, IPTC, sy.w.entries),
                                       LAMBDA sz : {done(sz)}))
        body(sx, oversize, repeatable) ==
            IF oversize THEN {done(seek(sx, rd))}
            ELSE UNION { IF ~Running(o.s) THEN {o.s}
                         ELSE IF ~o.r THEN {done(seek(o.s, rd))}
                         ELSE value(o.s, repeatable)
                         : o \in ShouldHandleTag(sx, IPTC, 0) }
    IN  Then(Reads(s, rd, "many"),
             LAMBDA sx : UNION { body(sx, oversize, repeatable)
                                 : oversize \in BOOLEAN, repeatable \in BOOLEAN })

\* decodeRecords: the marker byte before each record, read with binary.Read;
\* the reader is a buffer, so the only error is io.EOF.
decodeRecords(s) ==
    {handlestringSlices(s)}
    \cup (IF More(s) THEN decodeRecord(Entry(s)) ELSE {})

\* decodeBlocks, the header of a block: a signature other than 8BIM ends
\* the loop over the blocks, a block other than 0x0404 is skipped.
decodeBlock(s) ==
    LET fr == Top(s)
        rd == fr.rd
    IN  Then(Reads(s, rd, "one"),
             LAMBDA sx :
               {handlestringSlices(sx)}
               \cup Then(Reads(sx, rd, "many"),
                         LAMBDA sy : {sy, SetTop(sy, [fr EXCEPT !.pc = "marker"])}))

\* decodeBlocks, the loop over the records of a 0x0404 block: after an end
\* of file or at a marker other than 0x1C the block returns errStop, which
\* ends the loop over the blocks.
decodeBlockRecords(s) ==
    LET fr == Top(s)
        rd == fr.rd
    IN  Then(Reads(s, rd, "byte"),
             LAMBDA sx :
               {handlestringSlices(sx)}
               \cup (IF ~sx.w.isEOF[rd] /\ More(sx) THEN decodeRecord(Entry(sx)) ELSE {}))

\* newMetaDecoderIPTC over a buffer, and the call of decodeRecords ("marker"
\* of "iptcR") or decodeBlocks ("block" of "iptcB").
newMetaDecoderIPTC(s, f) ==
    Push([newStreamReader(s, "iptc") EXCEPT !.w.stringSlices = {}],
         Frame(f, IF f = "iptcR" THEN "marker" ELSE "block", "iptc"))

----------------------------------------------------------------------------
(* The EXIF decoder. *)

\* The entries an IFD can hold, by what decodeTag does with them.
\*   kind: a plain tag, a pointer to the IFD ifd, ApplicationNotes (0x02bc),
\*         IPTC-NAA (0x83bb);
\*   flaw: "big" count > 0x10000, "badType" a type code without a size,
\*         "oversize" a value longer than LimitTagSize, "notLong" a pointer
\*         whose value is not one LONG, "assert" ThumbnailOffset or
\*         CFAPattern with a value of another type than its conversion
\*         asserts;
\*   far: the value is longer than 4 bytes and lies at an offset.
Tags ==
    [kind : {"plain"}, ifd : {"none"}, flaw : {"none", "big", "badType", "oversize", "assert"}, far : BOOLEAN]
    \cup [kind : {"ptr"}, ifd : IFDPointers, flaw : {"none", "big", "badType", "notLong"}, far : {FALSE}]
    \cup [kind : {"xmp", "iptc"}, ifd : {"none"}, flaw : {"none", "big", "badType", "oversize"}, far : {TRUE}]

\* decodeTag at 0x02bc and 0x83bb when the source is asked for: the offset
\* is read, the value copied into a buffer and decoded.
decodeEmbedded(s, t) ==
    LET fr == Top(s)
        rd == fr.rd
        copied(sx) == [preservePos(sx) EXCEPT
                         !.w.over = IF t.flaw = "oversize" THEN "embedded" ELSE @]
    IN  Then(Reads(s, rd, "one"),
             LAMBDA sx :
               { IF b.e # nil THEN Return(b.s, b.e)
                 ELSE IF t.kind = "xmp"
                 THEN Push(copied(b.s), Frame("xmp", "parse", "iptc"))
                 ELSE newMetaDecoderIPTC(copied(b.s), "iptcR")
                 : b \in bufferedReader(seek(sx, rd), rd) })

\* decodeTag from the reading of the value on.
decodeValue(s, t) ==
    LET fr == Top(s)
        rd == fr.rd
        after(s0) ==
            LET sx == [s0 EXCEPT !.w.cursor = 12,
                                 !.w.over = IF t.flaw = "oversize" THEN "exif" ELSE @] IN
            IF t.kind = "ptr"
            THEN IF t.flaw = "notLong"
                 THEN {Return(sx, newInvalidFormatError(Error("invalid IFD pointer value")))}
                 ELSE {Push(seek([preservePos(sx) EXCEPT
                                    !.h.ifds[t.ifd] = IF @ = "no" THEN "entered"
                                                      ELSE "twice"], rd),
                            [Frame("ifd", "count", rd) EXCEPT !.root = fr.root,
                                                              !.nested = TRUE])}
            ELSE IF t.flaw = "assert" THEN {Panic(sx, ErrRuntime)}
            ELSE HandleTag(sx, EXIF, sx.w.entries)
    IN  IF t.far
        THEN Then(Reads(s, rd, "one"),
                  LAMBDA sx :
                    UNION { IF b.e # nil THEN {Return(b.s, b.e)} ELSE after(b.s)
                            : b \in bufferedReader(seek(sx, rd), rd) })
        ELSE Then(Reads(s, rd, "many"), LAMBDA sx : after(seek(sx, rd)))

\* (The visited kinds not being kept.)
seeIFDForgetting(s, ifd) == s

\* "e.seenIFDs[ifd] = struct{}{}"
seeIFD(s, ifd) == [s EXCEPT !.w.seenIFDs = @ \cup {ifd}]

\* (The predicate being asked about the pointer tags as well.)
shouldHandleEveryEntry(s, t, root) == ShouldHandleTag(s, EXIF, root)

\* "!isIFDPointer && !e.opts.ShouldHandleTag(tagInfo)": the predicate is
\* not called for a pointer tag.  The set of [s, r], r saying that the
\* entry goes on to be read.
shouldHandleEntry(s, t, root) ==
    IF t.kind = "ptr" THEN {[s |-> s, r |-> TRUE]}
    ELSE ShouldHandleTag(s, EXIF, root)

\* decodeTag after the 8 bytes of tag ID, type and count have been read.
decodeTagBody(s, t) ==
    LET fr == Top(s)
        rd == fr.rd
        skip4(sx) == [seek(sx, rd) EXCEPT !.w.cursor = 12]
        s2 == IF t.kind = "ptr" THEN seeIFD(s, t.ifd) ELSE s
    IN  IF t.flaw = "big" THEN {skip4(s)}
        ELSE IF t.kind = "ptr" /\ t.ifd \in s.w.seenIFDs
        THEN {[s EXCEPT !.w.cursor = 8, !.w.left = t.ifd]}
        ELSE IF t.flaw = "badType"
        THEN {Return(s2, newInvalidFormatError(Error("unknown EXIF type")))}
        ELSE IF t.kind = "xmp"
        THEN IF ~Has(opts.Sources, XMP) THEN {skip4(s2)} ELSE decodeEmbedded(s2, t)
        ELSE IF t.kind = "iptc"
        THEN IF ~Has(opts.Sources, IPTC) THEN {skip4(s2)} ELSE decodeEmbedded(s2, t)
        ELSE IF ~Has(opts.Sources, EXIF) \/ t.flaw = "oversize" THEN {skip4(s2)}
        ELSE UNION { IF ~Running(o.s) THEN {o.s}
                     ELSE IF ~o.r THEN {skip4(o.s)}
                     ELSE decodeValue(o.s, t)
                     : o \in shouldHandleEntry(s2, t, fr.root) }

\* The loop of decodeTags: the entries of the IFD of the top frame are
\* done, or decodeTag reads one more 12-byte entry.
decodeTag(s) ==
    {ReturnNil(s)}
    \cup (IF More(s)
          THEN Then(Reads(Entry(s), Top(s).rd, "many"),
                    LAMBDA sx : UNION { decodeTagBody(sx, t) : t \in Tags })
          ELSE {})

\* decodeTags: the 16-bit entry count.
decodeTags(s) ==
    Then(Reads(s, Top(s).rd, "one"),
         LAMBDA sx : {SetTop(sx, [Top(sx) EXCEPT !.pc = "tag"])})

\* metaDecoderEXIF.decode up to IFD0: byte-order mark and offset of IFD0.
decodeEXIF(s) ==
    Then(Reads(s, Top(s).rd, "many"),
         LAMBDA sx : {ReturnNil(sx),
                      Push(SetTop(seek(sx, Top(sx).rd), [Top(sx) EXCEPT !.pc = "ifd1"]),
                           Frame("ifd", "count", Top(sx).rd))})

\* metaDecoderEXIF.decode after IFD0: the offset of IFD1, and IFD1.
decodeIFD1(s) ==
    Then(Reads(s, Top(s).rd, "one"),
         LAMBDA sx : {ReturnNil(sx),
                      Push(SetTop(seek(sx, Top(sx).rd), [Top(sx) EXCEPT !.pc = "end"]),
                           [Frame("ifd", "count", Top(sx).rd) EXCEPT !.root = 1])})

\* newMetaDecoderEXIF over a buffer, and the call of decode.
newMetaDecoderEXIF(s) ==
    Push([newStreamReader(s, "exif") EXCEPT !.w.seenIFDs = {}],
         Frame("exif", "hdr", "exif"))

----------------------------------------------------------------------------
(* The walkers. *)

\* The reads of a chunk header: past MaxChunks chunks the file has ended.
ChunkReads(s, kind) ==
    { read(s, "base", out) :
        out \in ReadOuts("base", kind) \ (IF s.w.chunks >= MaxChunks THEN {"ok"} ELSE {}) }

NextChunk(s) == [s EXCEPT !.w.chunks = @ + 1]

\* What the payload of a zTXt chunk "Raw profile type iptc" can be: "empty"
\* no byte at all, "method" a compression method other than 0, "zlib" not a
\* zlib stream, "short" text shorter than the profile header, "hex" text
\* that is not hexadecimal, "ok".
ZTXt == {"empty", "method", "zlib", "short", "hex", "ok"}

\* imageDecoderPNG.decode, the zTXt chunk "Raw profile type iptc" when IPTC
\* is asked for.
decodePNGRawProfileIPTC(s) ==
    LET s1 == NextChunk([s EXCEPT !.w.sourceSet = Remove(@, IPTC)]) IN
    {Return(s1, newInvalidFormatError(Error("invalid data length")))}
    \cup Then(Reads(s1, "base", "one"),
              LAMBDA sx :
                { CASE z = "empty" -> Panic(sx, ErrRuntime)
                    [] z = "method" -> Return(sx, newInvalidFormatError(Error("decompressing zTXt")))
                    [] z = "zlib" -> Return(sx, newInvalidFormatError(Error("decompressing zTXt")))
                    [] z = "short" -> Panic(sx, ErrRuntime)
                    [] z = "hex" -> Return(sx, ErrHex)
                    [] z = "ok" -> newMetaDecoderIPTC(sx, "iptcB")
                  : z \in ZTXt })

\* imageDecoderPNG.decode: one pass of the loop over the chunks.
decodePNG(s) ==
    IF IsZero(s.w.sourceSet) THEN {ReturnNil(s)}
    ELSE Then(ChunkReads(s, "many"),
              LAMBDA sx :
                \* eXIf
                (IF Has(sx.w.sourceSet, EXIF)
                 THEN { IF b.e # nil THEN Return(b.s, b.e)
                        ELSE newMetaDecoderEXIF(NextChunk([b.s EXCEPT !.w.sourceSet = Remove(@, EXIF)]))
                        : b \in bufferedReader(sx, "base") }
                 ELSE {})
                \* zTXt
                \cup Then(Reads(sx, "base", "many"),
                          LAMBDA sy :
                            {NextChunk(seek(sy, "base"))}
                            \cup (IF Has(sy.w.sourceSet, IPTC)
                                  THEN decodePNGRawProfileIPTC(sy) ELSE {}))
                \* any other chunk
                \cup {NextChunk(seek(sx, "base"))})

\* imageDecoderJPEG.decode up to the loop: a failing read of the SOI marker
\* and a marker other than SOI both end the walk with nil.
decodeJPGHeader(s) ==
    LET s1 == Did(s, "read") IN
    {ReturnNil(s1),
     SetTop([s1 EXCEPT !.w.sourceSet = {EXIF, IPTC, XMP} \cap opts.Sources],
            [Top(s1) EXCEPT !.pc = "loop"])}

\* imageDecoderJPEG.handleEXIF: the segment is copied to a buffer and its
\* first four bytes are compared with "Exif".  A segment that does not
\* start with them is left at that, with nil; isXMP says that it is the
\* APP1 segment holding the XMP packet, which has the same marker 0xffe1.
handleEXIF(s) ==
    UNION { IF b.e # nil THEN {Return(b.s, b.e)}
            ELSE Then(Reads(newStreamReader(b.s, "exif"), "exif", "one"),
                      LAMBDA sy :
                        { NextChunk([sy EXCEPT !.w.isEOF["exif"] = FALSE,
                                               !.h.xmp = IF isXMP /\ opts.HandleXMP
                                                         THEN "lost" ELSE @,
                                               !.h.xmpAsEXIF = @ \/ isXMP])
                          : isXMP \in {FALSE, Has(sy.w.sourceSet, XMP)} }
                        \cup {Push(NextChunk([seek(sy, "exif") EXCEPT !.w.seenIFDs = {}]),
                                   Frame("exif", "hdr", "exif"))})
            : b \in bufferedReader(s, "base") }

\* imageDecoderJPEG.handleIPTC.
handleIPTC(s) ==
    { IF b.e # nil THEN Return(b.s, b.e)
      ELSE newMetaDecoderIPTC(NextChunk(b.s), "iptcB")
      : b \in bufferedReader(s, "base") }

\* imageDecoderJPEG.decode: one pass of the loop over the segments.
decodeJPG(s) ==
    IF IsZero(s.w.sourceSet) THEN {ReturnNil(s)}
    ELSE Then(ChunkReads(s, "one"),
           LAMBDA s1 :
             IF s1.w.isEOF["base"] THEN {ReturnNil(s1)}
             ELSE \* a zero marker, the SOS marker
                  {s1, ReturnNil(s1)}
                  \cup Then(Reads(s1, "base", "one"),
                    LAMBDA sx :
                      {Return(sx, errInvalidFormat)}
                      \* APP1 while EXIF is asked for
                      \cup (IF Has(sx.w.sourceSet, EXIF)
                            THEN handleEXIF([sx EXCEPT !.w.sourceSet = Remove(@, EXIF)])
                            ELSE {})
                      \* APP13 while IPTC is asked for
                      \cup (IF Has(sx.w.sourceSet, IPTC)
                            THEN handleIPTC([sx EXCEPT !.w.sourceSet = Remove(@, IPTC)])
                            ELSE {})
                      \* APP1 while XMP is asked for: readBytesVolatileE
                      \* returns the reader's error, or the 29 bytes that
                      \* are, or are not, the XMP identifier
                      \cup (IF Has(sx.w.sourceSet, XMP)
                            THEN LET sy == Did(sx, "read") IN
                                 {Return(sy, ErrIO), Return(sy, EOF),
                                  Push(NextChunk([sy EXCEPT !.w.sourceSet = Remove(@, XMP)]),
                                       Frame("xmp", "parse", "base")),
                                  NextChunk(seek(seek(sy, "base"), "base"))}
                            ELSE {})
                      \* any other segment
                      \cup {NextChunk(seek(sx, "base"))}))

\* imageDecoderTIF.decode: the header.
decodeTIF(s) ==
    Then(Reads(s, "base", "many"),
         LAMBDA sx : {Return(sx, errInvalidFormat),
                      SetTop(seek(sx, "base"),
                             [Top(sx) EXCEPT !.pc = IF Has(opts.Sources, CONFIG)
                                                    THEN "config" ELSE "ifd0"])})

\* imageDecoderTIF.decode: the scan of IFD0 for ImageWidth and ImageHeight.
\* "e.result.ImageConfig = ImageConfig{...}" stores into Decode's result;
\* when Decode has returned by the timer, its task has read that variable
\* with nothing ordering the read and this store.
decodeTIFConfig(s) ==
    LET store(sx) == [sx EXCEPT !.w.result = "config",
                                !.h.race = @ \/ sx.h.timedOut]
    IN  Then(Reads(s, "base", "many"),
             LAMBDA sx : IF opts.Sources = {CONFIG} THEN {ReturnNil(store(sx))}
                         ELSE {SetTop(seek(store(sx), "base"),
                                      [Top(sx) EXCEPT !.pc = "ifd0"])})

\* imageDecoderTIF.decode: newMetaDecoderEXIFFromStreamReader over the
\* walker's own streamReader, and decodeTags("IFD0").
decodeTIFTags(s) ==
    Push([SetTop(s, [Top(s) EXCEPT !.pc = "end"]) EXCEPT !.w.seenIFDs = {}],
         Frame("ifd", "count", "base"))

\* decoderWebP.decode: the RIFF header.
decodeWebPHeader(s) ==
    LET s1 == [s EXCEPT !.w.sourceSet = {EXIF, XMP} \cap opts.Sources] IN
    IF IsZero(s1.w.sourceSet) THEN {ReturnNil(s1)}
    ELSE Then(Reads(s1, "base", "many"),
              LAMBDA sx : {Return(sx, errInvalidFormat),
                           SetTop(sx, [Top(sx) EXCEPT !.pc = "loop"])})

\* (The flags of the VP8X chunk not being looked at.)
vp8xIgnoringFlags(s, gone) == [s EXCEPT !.w.noEXIF = @ \/ EXIF \in gone]

\* The VP8X chunk: the sources gone, whose flags are clear, are removed
\* from sourceSet.
vp8x(s, gone) ==
    [s EXCEPT !.w.sourceSet = @ \ gone, !.w.noEXIF = @ \/ EXIF \in gone]

\* decoderWebP.decode: one pass of the loop over the chunks.
decodeWebP(s) ==
    IF IsZero(s.w.sourceSet) THEN {ReturnNil(s)}
    ELSE Then(ChunkReads(s, "one"),
           LAMBDA s1 :
             IF s1.w.isEOF["base"] THEN {ReturnNil(s1)}
             ELSE Then(Reads(s1, "base", "one"),
               LAMBDA sx :
                 \* VP8X
                 {Return(sx, errInvalidFormat)}
                 \cup Then(Reads(sx, "base", "one"),
                           LAMBDA sy :
                             { LET sz == NextChunk(vp8x(sy, gone))
                               IN  IF IsZero(sz.w.sourceSet) THEN ReturnNil(sz) ELSE sz
                               : gone \in SUBSET {EXIF, XMP} })
                 \* EXIF
                 \cup (IF Has(sx.w.sourceSet, EXIF)
                       THEN { IF b.e # nil THEN Return(b.s, b.e)
                              ELSE newMetaDecoderEXIF(NextChunk([b.s EXCEPT !.w.sourceSet = Remove(@, EXIF)]))
                              : b \in bufferedReader(sx, "base") }
                       ELSE {})
                 \* XMP
                 \cup (IF Has(sx.w.sourceSet, XMP)
                       THEN { IF b.e # nil THEN Return(b.s, b.e)
                              ELSE Push(NextChunk([b.s EXCEPT !.w.sourceSet = Remove(@, XMP)]),
                                        Frame("xmp", "parse", "iptc"))
                              : b \in bufferedReader(sx, "base") }
                       ELSE {})
                 \* any other chunk
                 \cup {NextChunk(seek(sx, "base"))}))

----------------------------------------------------------------------------
(* Decode and its worker. *)

\* The first frame of dec.decode() for the format.
Walker(f) ==
    CASE f = "PNG" -> Frame("png", "loop", "base")
      [] f = "TIFF" -> Frame("tif", "hdr", "base")
      [] f = "WebP" -> Frame("webp", "hdr", "base")
      [] f = "JPEG" -> Frame("jpg", "soi", "base")

\* Decode up to the call of dec.decode(): the options are checked and
\* completed, the source mask is cut down to the format.  Without a timeout
\* the walker runs in the caller's task, with one in a worker.
Decode ==
    /\ cpc = "start"
    /\ LET Sources == IF opts.Sources = {} THEN {EXIF, IPTC, XMP} ELSE opts.Sources
           sourceSet == FormatSources(opts.ImageFormat) \cap Sources
           done(e) == /\ cpc' = "done"
                      /\ err' = errFinal(e, FALSE, w)
                      /\ UNCHANGED <<opts, w>>
       IN  IF ~opts.R THEN done(ErrNoReader)
           ELSE IF opts.ImageFormat = "Auto" THEN done(ErrNoFormat)
           ELSE IF FormatSources(opts.ImageFormat) = {} THEN done(ErrUnsupported)
           ELSE /\ opts' = [opts EXCEPT
                              !.LimitNumTags = IF @ = 0 THEN defaultLimitNumTags ELSE @,
                              !.Sources = sourceSet]
                /\ IF IsZero(sourceSet)
                   THEN cpc' = "done" /\ err' = errFinal(nil, FALSE, w) /\ w' = w
                   ELSE /\ cpc' = IF opts.Timeout > 0 THEN "select" ELSE "decode"
                        /\ err' = err
                        /\ w' = [w EXCEPT !.wpc = "running",
                                          !.stack = <<Walker(opts.ImageFormat)>>,
                                          !.sourceSet = sourceSet]
    /\ hist' = hist
    /\ UNCHANGED <<conv, buf, iptc, heif>>

\* One step H of the walker, taken when the top frame is at pc of f.
Walk(f, pc, H(_)) ==
    /\ w.wpc = "running"
    /\ w.stack # <<>>
    /\ Top([w |-> w]).f = f
    /\ Top([w |-> w]).pc = pc
    /\ \E s \in H([w |-> [w EXCEPT !.cursor = 0, !.left = "none", !.over = "no"],
                    h |-> hist]) :
          w' = s.w /\ hist' = s.h
    /\ UNCHANGED <<opts, cpc, err, conv, buf, iptc, heif>>

JPGHeader == Walk("jpg", "soi", decodeJPGHeader)
JPGSegment == Walk("jpg", "loop", decodeJPG)
PNGChunk == Walk("png", "loop", decodePNG)
TIFHeader == Walk("tif", "hdr", decodeTIF)
TIFConfig == Walk("tif", "config", decodeTIFConfig)
TIFTags == Walk("tif", "ifd0", LAMBDA s : {decodeTIFTags(s)})
WebPHeader == Walk("webp", "hdr", decodeWebPHeader)
WebPChunk == Walk("webp", "loop", decodeWebP)
EXIFHeader == Walk("exif", "hdr", decodeEXIF)
EXIFIFD1 == Walk("exif", "ifd1", decodeIFD1)
EXIFTags == Walk("ifd", "count", decodeTags)
EXIFTag == Walk("ifd", "tag", decodeTag)
XMPPacket == Walk("xmp", "parse", decodeXMP)
XMPItem == Walk("xmp", "item", decodeXMPItem)
IPTCRecords == Walk("iptcR", "marker", decodeRecords)
IPTCBlock == Walk("iptcB", "block", decodeBlock)
IPTCBlockRecords == Walk("iptcB", "marker", decodeBlockRecords)
IPTCFlush == \/ Walk("iptcR", "flush", LAMBDA s : handlestringSlice(s))
             \/ Walk("iptcB", "flush", LAMBDA s : handlestringSlice(s))

\* Without a timeout: dec.decode() has returned or panicked in Decode's own
\* task; the deferred functions recover and normalise the error.
DecodeReturn ==
    /\ cpc = "decode"
    /\ w.wpc \in {"returned", "panicked"}
    /\ err' = errFinal(IF w.wpc = "returned" THEN w.wres ELSE errFromRecover(w.wres), TRUE, w)
    /\ cpc' = "done"
    /\ w' = [w EXCEPT !.wpc = "exited"]
    /\ hist' = [hist EXCEPT !.res = w.result]
    /\ UNCHANGED <<opts, conv, buf, iptc, heif>>

\* (The deferred function sending whatever errFromRecover returned.)
workerSendsUnguarded(ww) ==
    IF ww.wpc = "returned" THEN <<ww.wres, errFromRecover(nil)>>
    ELSE <<errFromRecover(ww.wres)>>

\* The values the worker sends on errc once dec.decode() has returned or
\* panicked: "errc <- dec.decode()" when it has returned, then in the
\* deferred function "err2 := errFromRecover(recover()); if err2 != nil
\* { errc <- err2 }", where recover() is nil unless it has panicked.
workerSends(ww) ==
    LET r == IF ww.wpc = "panicked" THEN ww.wres ELSE nil
        err2 == errFromRecover(r)
    IN  (IF ww.wpc = "returned" THEN <<ww.wres>> ELSE <<>>)
        \o (IF err2 # nil THEN <<err2>> ELSE <<>>)

\* With a timeout: the worker sends on errc (of capacity 1) and ends; a
\* send for which errc has no room blocks.
WorkerSend ==
    /\ opts.Timeout > 0
    /\ w.wpc \in {"returned", "panicked"}
    /\ Len(w.errc) + Len(workerSends(w)) <= 1
    /\ w' = [w EXCEPT !.wpc = "exited", !.errc = @ \o workerSends(w)]
    /\ hist' = [hist EXCEPT !.sent = @ + Len(workerSends(w))]
    /\ UNCHANGED <<opts, cpc, err, conv, buf, iptc, heif>>

\* The select of Decode takes the worker's result.
Receive ==
    /\ cpc = "select"
    /\ w.errc # <<>>
    /\ err' = errFinal(Head(w.errc), TRUE, w)
    /\ cpc' = "done"
    /\ w' = [w EXCEPT !.errc = Tail(@)]
    /\ hist' = [hist EXCEPT !.res = w.result]
    /\ UNCHANGED <<opts, conv, buf, iptc, heif>>

\* (The timer's case assigning a shadowed err, "err := fmt.Errorf(...)".)
TimerFiresShadowed ==
    /\ cpc = "select"
    /\ err' = errFinal(nil, TRUE, w)
    /\ cpc' = "done"
    /\ hist' = [hist EXCEPT !.timedOut = TRUE, !.res = w.result]
    /\ UNCHANGED <<opts, w, conv, buf, iptc, heif>>

\* What "return" reads from result when the worker may be storing an
\* ImageConfig (two words) into it at the same time, the two accesses being
\* ordered by nothing: the value before the store, the value after it, or
\* one word of each.
RacyResult(ww) == IF ww.result = "zero" THEN {"zero"} ELSE {"zero", "config", "torn"}

\* The select of Decode takes the timer.
TimerFires ==
    /\ cpc = "select"
    /\ err' = errFinal(ErrTimeout(opts.Timeout), TRUE, w)
    /\ cpc' = "done"
    /\ \E r \in RacyResult(w) :
          hist' = [hist EXCEPT !.timedOut = TRUE, !.res = r,
                               !.race = @ \/ w.result # "zero"]
    /\ UNCHANGED <<opts, w, conv, buf, iptc, heif>>

Next ==
    \/ Decode
    \/ JPGHeader
    \/ JPGSegment
    \/ PNGChunk
    \/ TIFHeader
    \/ TIFConfig
    \/ TIFTags
    \/ WebPHeader
    \/ WebPChunk
    \/ EXIFHeader
    \/ EXIFIFD1
    \/ EXIFTags
    \/ EXIFTag
    \/ XMPPacket
    \/ XMPItem
    \/ IPTCRecords
    \/ IPTCBlock
    \/ IPTCBlockRecords
    \/ IPTCFlush
    \/ DecodeReturn
    \/ WorkerSend
    \/ Receive
    \/ TimerFires

Spec == Init /\ [][Next]_vars

----------------------------------------------------------------------------
(* Rationals: NewRat, rat.String, rat.UnmarshalText and the conversion of *)
(* the EXIF rational types.                                               *)

\* A value of type T, int32 or uint32, is kept as the 32 bits that hold
\* it, read as a two's complement number: the uint32 values from 2^31 on
\* are the negative numbers (4294967295 is -1).
MaxInt32 == 2147483647
MinInt32 == -MaxInt32 - 1
RatTypes == {"int32", "uint32"}

\* x < 0 for x of type T.
IsNeg(T, x) == T = "int32" /\ x < 0

\* a < b for a, b of type uint32.
ULess(a, b) == IF (a < 0) = (b < 0) THEN a < b ELSE b < 0

\* -x and a + b of Go on 32 bits: the result wraps around.
Neg(x) == IF x = MinInt32 THEN MinInt32 ELSE -x
WrapAdd(a, b) ==
    IF a > 0 /\ b > MaxInt32 - a THEN (a - MaxInt32 - 1) + (b - MaxInt32 - 1)
    ELSE IF a < 0 /\ b < MinInt32 - a THEN (a + MaxInt32 + 1) + (b + MaxInt32 + 1)
    ELSE a + b

\* a / b and a % b of Go for int32, b # 0: the quotient is truncated
\* towards zero, and MinInt32 / -1 is MinInt32 with remainder 0.
SQuo(a, b) ==
    LET pos(x, y) == IF x >= 0 THEN x \div y
                     ELSE (x \div y) + (IF x % y # 0 THEN 1 ELSE 0)
    IN  IF b = -1 THEN Neg(a)
        ELSE IF b = MinInt32 THEN (IF a = MinInt32 THEN 1 ELSE 0)
        ELSE IF b > 0 THEN pos(a, b)
        ELSE IF a = MinInt32 THEN -pos(a, -b)
        ELSE pos(-a, -b)
SRem(a, b) == IF b = -1 THEN 0 ELSE a - b * SQuo(a, b)

\* a / b and a % b of Go for uint32, b # 0, as [q, r].
UDivMod(a, b) ==
    IF b < 0 THEN (IF ULess(a, b) THEN [q |-> 0, r |-> a] ELSE [q |-> 1, r |-> a - b])
    ELSE IF a >= 0 THEN [q |-> a \div b, r |-> a % b]
    ELSE IF b = 1 THEN [q |-> a, r |-> 0]
    ELSE LET low == (a + MaxInt32 + 1) % 2
             half == ((a + MaxInt32 + 1) \div 2) + 1073741824
             m == half % b
             up == m >= b - m - low
         IN  [q |-> (half \div b) * 2 + (IF up THEN 1 ELSE 0),
              r |-> IF up THEN m - (b - m - low) ELSE 2 * m + low]

Quo(T, a, b) == IF T = "int32" THEN SQuo(a, b) ELSE UDivMod(a, b).q
Rem(T, a, b) == IF T = "int32" THEN SRem(a, b) ELSE UDivMod(a, b).r

\* The closure gcd of NewRat: "for b != 0 { a, b = b, a%b }; return a".
RECURSIVE gcd(_, _, _)
gcd(T, a, b) == IF b = 0 THEN a ELSE gcd(T, b, Rem(T, a, b))

\* NewRat[T](num, den), as [rat, err].
NoRat == [num |-> 0, den |-> 0]
NewRat(T, num, den) ==
    IF den = 0 THEN [rat |-> NoRat, err |-> Error("denominator must be non-zero")]
    ELSE LET d == gcd(T, num, den)
             n1 == IF d # 1 THEN Quo(T, num, d) ELSE num
             d1 == IF d # 1 THEN Quo(T, den, d) ELSE den
         IN  [rat |-> IF IsNeg(T, d1) THEN [num |-> Neg(n1), den |-> Neg(d1)]
                      ELSE [num |-> n1, den |-> d1],
              err |-> nil]

\* Text is a sequence of characters.  fmt's %d of a uint32 and of an int32.
DecimalDigits == <<"0", "1", "2", "3", "4", "5", "6", "7", "8", "9">>
RECURSIVE FormatUint(_)
FormatUint(x) ==
    IF x \in 0..9 THEN <<DecimalDigits[x + 1]>>
    ELSE FormatUint(UDivMod(x, 10).q) \o <<DecimalDigits[UDivMod(x, 10).r + 1]>>
RECURSIVE FormatNeg(_)
FormatNeg(x) ==
    IF x > -10 THEN <<DecimalDigits[1 - x]>>
    ELSE FormatNeg(SQuo(x, 10)) \o <<DecimalDigits[1 - SRem(x, 10)]>>
FormatInt(T, x) == IF IsNeg(T, x) THEN <<"-">> \o FormatNeg(x) ELSE FormatUint(x)

\* rat.String (and MarshalText, which returns its bytes).
String(T, r) ==
    IF r.den = 1 THEN FormatInt(T, r.num)
    ELSE FormatInt(T, r.num) \o <<"/">> \o FormatInt(T, r.den)

\* The value of the decimal digit c.
DigitVal(c) == CHOOSE v \in 0..9 : DecimalDigits[v + 1] = c
IsDigit(c) == \E v \in 0..9 : DecimalDigits[v + 1] = c

\* The digits ds without their leading zeros.
RECURSIVE TrimZeros(_)
TrimZeros(ds) == IF Len(ds) > 1 /\ Head(ds) = "0" THEN TrimZeros(Tail(ds)) ELSE ds

\* The number written ds is at most the number written lim.
RECURSIVE LexLeq(_, _)
LexLeq(a, b) ==
    IF a = <<>> THEN TRUE
    ELSE IF Head(a) # Head(b) THEN DigitVal(Head(a)) < DigitVal(Head(b))
    ELSE LexLeq(Tail(a), Tail(b))
AtMost(ds, lim) ==
    LET t == TrimZeros(ds) IN
    Len(t) < Len(lim) \/ (Len(t) = Len(lim) /\ LexLeq(t, lim))

\* The number written ds, cut to its low 32 bits.
RECURSIVE Low32(_, _)
Low32(acc, ds) ==
    IF ds = <<>> THEN acc
    ELSE LET x2 == WrapAdd(acc, acc)
             x8 == WrapAdd(WrapAdd(x2, x2), WrapAdd(x2, x2))
         IN  Low32(WrapAdd(WrapAdd(x8, x2), DigitVal(Head(ds))), Tail(ds))

\* The largest values of an integer of 32 and of 64 bits, and of their
\* negations, as digits.
MaxDigits(bits, signed, neg) ==
    CASE bits = 32 /\ ~signed -> <<"4","2","9","4","9","6","7","2","9","5">>
      [] bits = 32 /\ signed /\ ~neg -> <<"2","1","4","7","4","8","3","6","4","7">>
      [] bits = 32 /\ signed /\ neg -> <<"2","1","4","7","4","8","3","6","4","8">>
      [] bits = 64 /\ ~signed -> <<"1","8","4","4","6","7","4","4","0","7","3","7","0","9","5","5","1","6","1","5">>
      [] bits = 64 /\ signed /\ ~neg -> <<"9","2","2","3","3","7","2","0","3","6","8","5","4","7","7","5","8","0","7">>
      [] bits = 64 /\ signed /\ neg -> <<"9","2","2","3","3","7","2","0","3","6","8","5","4","7","7","5","8","0","8">>

\* The sizes of int a build can have (strconv.IntSize).
IntSizes == {32, 64}

\* T(num) of strconv.Atoi(s) for an int of intSize bits, as [ok, v]: an
\* optional sign, then digits only, and a value that fits int.
Atoi(s, intSize) ==
    LET signed == s # <<>> /\ Head(s) \in {"+", "-"}
        neg == s # <<>> /\ Head(s) = "-"
        ds == IF signed THEN Tail(s) ELSE s
    IN  IF ds = <<>> \/ (\E i \in DOMAIN ds : ~IsDigit(ds[i]))
           \/ ~AtMost(ds, MaxDigits(intSize, TRUE, neg))
        THEN [ok |-> FALSE, v |-> 0]
        ELSE [ok |-> TRUE, v |-> IF neg THEN Neg(Low32(0, ds)) ELSE Low32(0, ds)]

\* The end of the run of digits of s that starts at i (i - 1 if none).
RECURSIVE DigitRun(_, _)
DigitRun(s, i) == IF i <= Len(s) /\ IsDigit(s[i]) THEN DigitRun(s, i + 1) ELSE i - 1

\* The verb %d of fmt.Sscanf at place i of s, scanning into a T, as
\* [ok, v, next]: a sign is accepted for int32 only, at least one digit is
\* needed, and the value has to fit T.
ScanInt(T, s, i) ==
    LET signed == T = "int32" /\ i <= Len(s) /\ s[i] \in {"+", "-"}
        neg == signed /\ s[i] = "-"
        from == IF signed THEN i + 1 ELSE i
        to == DigitRun(s, from)
        ds == SubSeq(s, from, to)
    IN  IF to < from \/ ~AtMost(ds, MaxDigits(32, T = "int32", neg))
        THEN [ok |-> FALSE, v |-> 0, next |-> i]
        ELSE [ok |-> TRUE, v |-> IF neg THEN Neg(Low32(0, ds)) ELSE Low32(0, ds),
              next |-> to + 1]

\* rat.UnmarshalText on the rational r, as [rat, err]: r is what the call
\* leaves in the receiver.
UnmarshalText(T, r, s, intSize) ==
    LET failed == Error("failed to parse as a rational number") IN
    IF ~(\E i \in DOMAIN s : s[i] = "/")
    THEN LET a == Atoi(s, intSize) IN
         IF ~a.ok THEN [rat |-> r, err |-> failed]
         ELSE [rat |-> [num |-> a.v, den |-> 1], err |-> nil]
    ELSE LET n == ScanInt(T, s, 1) IN
         IF ~n.ok THEN [rat |-> r, err |-> failed]
         ELSE IF n.next > Len(s) \/ s[n.next] # "/"
         THEN [rat |-> [r EXCEPT !.num = n.v], err |-> failed]
         ELSE LET d == ScanInt(T, s, n.next + 1) IN
              IF ~d.ok THEN [rat |-> [r EXCEPT !.num = n.v], err |-> failed]
              ELSE [rat |-> [num |-> n.v, den |-> d.v], err |-> nil]

\* metaDecoderEXIF.doConvertValue for the two rational types, on the
\* numerator n and the denominator d read from the file: "undef", a
\* rational, or the int 0 after a warning.
exifTypeUnsignedRat8 == 5
exifTypeSignedRat8 == 10
undef == [k |-> "undef"]
doConvertValue(typ, n, d) ==
    CASE typ = exifTypeUnsignedRat8 ->
           IF d = 0 THEN undef
           ELSE LET c == NewRat("uint32", n, d) IN
                IF c.err # nil THEN [k |-> "int", v |-> 0]
                ELSE [k |-> "rat", r |-> c.rat]
      [] typ = exifTypeSignedRat8 ->
           LET c == NewRat("int32", n, d) IN
           IF c.err # nil THEN [k |-> "int", v |-> 0]
           ELSE [k |-> "rat", r |-> c.rat]

\* The numerators and denominators tried: the small ones, and the ends of
\* the range of each type (for uint32: 2^31 - 1, 2^31, 2^32 - 2, 2^32 - 1).
RatInputs(T) ==
    IF T = "int32"
    THEN {MinInt32, MinInt32 + 1, -6, -4, -3, -1, 0, 1, 2, 3, 4, 6, MaxInt32}
    ELSE {0, 1, 2, 3, 4, 6, MaxInt32, MinInt32, -2, -1}

\* A pair of numbers of a type T meets the rational code, in a build whose
\* int has intSize bits.  val is the converted EXIF value, rat and err what
\* NewRat returned, text the marshalled rational, back and err what
\* UnmarshalText returned.
RatInit ==
    /\ opts \in {o \in Options : o.ImageFormat = "TIFF" /\ o.Sources = {EXIF}
                                 /\ o.LimitNumTags = 0 /\ o.Timeout = 0}
    /\ cpc = "start"
    /\ err = nil
    /\ w = InitW
    /\ hist = InitHist
    /\ \E T \in RatTypes : \E n \in RatInputs(T), d \in RatInputs(T), size \in IntSizes :
          conv = [pc |-> "read", T |-> T, num |-> n, den |-> d, intSize |-> size,
                  val |-> [k |-> "none"], rat |-> NoRat, err |-> nil,
                  text |-> <<>>, back |-> NoRat]
    /\ buf = NoBuf
    /\ iptc = NoIPTC
    /\ heif = NoHEIF

\* The pair is the value of an EXIF tag of the rational type of T.
RatConvert ==
    /\ conv.pc = "read"
    /\ conv' = [conv EXCEPT !.pc = "value",
                            !.val = doConvertValue(IF conv.T = "int32"
                                                   THEN exifTypeSignedRat8
                                                   ELSE exifTypeUnsignedRat8,
                                                   conv.num, conv.den)]
    /\ UNCHANGED <<opts, cpc, err, w, hist, buf, iptc, heif>>

\* NewRat[T](num, den) is called.
RatNew ==
    /\ conv.pc = "read"
    /\ LET c == NewRat(conv.T, conv.num, conv.den) IN
       conv' = [conv EXCEPT !.pc = IF c.err = nil THEN "rat" ELSE "failed",
                            !.rat = c.rat, !.err = c.err]
    /\ UNCHANGED <<opts, cpc, err, w, hist, buf, iptc, heif>>

\* MarshalText is called on the rational.
RatMarshal ==
    /\ conv.pc = "rat"
    /\ conv' = [conv EXCEPT !.pc = "text", !.text = String(conv.T, conv.rat)]
    /\ UNCHANGED <<opts, cpc, err, w, hist, buf, iptc, heif>>

\* UnmarshalText is called with the text on a rational of the same type.
RatUnmarshal ==
    /\ conv.pc = "text"
    /\ \E r0 \in {NoRat, [num |-> 1, den |-> 2]} :
         LET u == UnmarshalText(conv.T, r0, conv.text, conv.intSize) IN
         conv' = [conv EXCEPT !.pc = "parsed", !.back = u.rat, !.err = u.err]
    /\ UNCHANGED <<opts, cpc, err, w, hist, buf, iptc, heif>>

RatNext ==
    \/ RatConvert
    \/ RatNew
    \/ RatMarshal
    \/ RatUnmarshal

RatSpec == RatInit /\ [][RatNext]_vars

----------------------------------------------------------------------------
(* The pooled buffer of a sub-stream: streamReader.bufferedReader and the  *)
(* callers' "r, err := e.bufferedReader(length); if err != nil { return    *)
(* err }; defer r.Close()", with the numbers of bytes kept.  buf is        *)
(*   length  the length asked for,                                         *)
(*   avail   the bytes the underlying reader still holds,                  *)
(*   rerr    what the reader returns after them: io.EOF or an error,       *)
(*   out     the buffers taken from the pool and not put back,             *)
(*   held    the bytes in the buffer,                                      *)
(*   err     what bufferedReader returned.                                 *)

errShortRead == Error("short read")

\* The lengths a caller can ask for: a JPEG segment length, an EXIF value
\* length, a PNG or WebP chunk length (uint32), and a negative int.
BufLengths == {-1, 0, 1, 2, 65533, 524288, 10485760, 10485761, MaxInt32}

BufAvail == {0, 1, 2, 65533, 10485760, 10485761, MaxInt32}

Min(a, b) == IF a < b THEN a ELSE b

\* io.CopyN(buff, r, n): io.Copy from io.LimitReader(r, n), which is at its
\* end at once when n <= 0; "if written == n { return n, nil }; if written
\* < n && err == nil { err = EOF }".
CopyN(n, avail, rerr) ==
    LET lim == IF n > 0 THEN n ELSE 0
        written == Min(lim, avail)
        e == IF written < lim /\ rerr # EOF THEN rerr ELSE nil
    IN  IF written = n THEN [n |-> n, err |-> nil]
        ELSE IF written < n /\ e = nil THEN [n |-> written, err |-> EOF]
        ELSE [n |-> written, err |-> e]

BufInit ==
    /\ opts \in {o \in Options : o.ImageFormat = "PNG" /\ o.Sources = {EXIF}
                                 /\ o.LimitNumTags = 0 /\ o.Timeout = 0}
    /\ cpc = "start"
    /\ err = nil
    /\ w = InitW
    /\ hist = InitHist
    /\ conv = NoConv
    /\ \E l \in BufLengths, a \in BufAvail, r \in {EOF, ErrIO} :
          buf = [pc |-> "call", length |-> l, avail |-> a, rerr |-> r,
                 out |-> 0, held |-> 0, err |-> nil]
    /\ iptc = NoIPTC
    /\ heif = NoHEIF

\* "buff := getBuffer()"
getBuffer ==
    /\ buf.pc = "call"
    /\ buf' = [buf EXCEPT !.pc = "copy", !.out = @ + 1]
    /\ UNCHANGED <<opts, cpc, err, w, hist, conv, iptc, heif>>

\* The rest of bufferedReader: the copy and the two tests of its result.
bufferedReaderCopy ==
    /\ buf.pc = "copy"
    /\ LET c == CopyN(buf.length, buf.avail, buf.rerr) IN
       buf' = [buf EXCEPT !.held = c.n,
                          !.avail = @ - c.n,
                          !.err = IF c.err # nil THEN c.err
                                  ELSE IF c.n # buf.length THEN errShortRead
                                  ELSE nil,
                          !.pc = IF c.err # nil \/ c.n # buf.length
                                 THEN "failed" ELSE "open"]
    /\ UNCHANGED <<opts, cpc, err, w, hist, conv, iptc, heif>>

\* The caller's deferred r.Close(): putBuffer resets the buffer and puts
\* it back.
putBuffer ==
    /\ buf.pc = "open"
    /\ buf' = [buf EXCEPT !.pc = "closed", !.out = @ - 1, !.held = 0]
    /\ UNCHANGED <<opts, cpc, err, w, hist, conv, iptc, heif>>

BufNext ==
    \/ getBuffer
    \/ bufferedReaderCopy
    \/ putBuffer

BufSpec == BufInit /\ [][BufNext]_vars

----------------------------------------------------------------------------
(* The IPTC decoder byte by byte: decodeBlocks over a buffer that holds    *)
(* 8BIM blocks, and decodeRecord with the size test.  iptc is              *)
(*   limit   opts.LimitTagSize,                                            *)
(*   file    the blocks of the buffer: meta says that the identifier is    *)
(*           0x0404, size is the data size, recs the payload lengths of    *)
(*           the records that make up the data of a 0x0404 block; every    *)
(*           block has an empty name, and a block of odd data size is      *)
(*           followed by one padding byte,                                 *)
(*   pos     the place of the reader,                                      *)
(*   n, k    the number of blocks whose header has been read, and of       *)
(*           records read in the block,                                    *)
(*   size, sized   the payload length of the record read last, and         *)
(*           whether it was skipped by the size test.                      *)

RECURSIVE SumSizes(_)
SumSizes(recs) ==
    IF recs = <<>> THEN 0 ELSE 5 + recs[1] + SumSizes(SubSeq(recs, 2, Len(recs)))

\* The payload lengths of a record (a uint16) and the limits of this
\* specification.
RecordSizes == {0, 1, 2, 5000, 65535}
TagSizeLimits == {100, 10000, 65535, 65536, 70000}

IPTCRecordLists ==
    {<<>>} \cup {<<a>> : a \in RecordSizes}
    \cup {<<a, b>> : a \in {0, 1}, b \in RecordSizes}

IPTCBlocks ==
    {[meta |-> FALSE, size |-> z, recs |-> <<>>] : z \in {0, 1, 2, 3}}
    \cup {[meta |-> TRUE, size |-> SumSizes(r), recs |-> r] : r \in IPTCRecordLists}

IPTCFiles ==
    {<<a>> : a \in IPTCBlocks}
    \cup {<<a, b>> : a \in {x \in IPTCBlocks : ~x.meta}, b \in IPTCBlocks}

\* The header of a block with an empty name: "8BIM", the identifier, the
\* name length 0 and its padding byte, the data size.
BlockHeaderLen == 4 + 2 + 1 + 1 + 4

\* The place in the buffer where block i starts, and where the block that
\* follows it starts.
RECURSIVE BlockStart(_, _)
BlockStart(file, i) ==
    IF i = 1 THEN 0
    ELSE BlockStart(file, i - 1) + BlockHeaderLen + file[i - 1].size
         + (file[i - 1].size % 2)

BlockEnd(file, i) == BlockStart(file, i + 1)

\* uint16(x) of a uint32
U16(x) == x % 65536

IPTCInit ==
    /\ opts \in {o \in Options : o.ImageFormat = "PNG" /\ o.Sources = {IPTC}
                                 /\ o.LimitNumTags = 0 /\ o.Timeout = 0}
    /\ cpc = "start"
    /\ err = nil
    /\ w = InitW
    /\ hist = InitHist
    /\ conv = NoConv
    /\ buf = NoBuf
    /\ \E f \in IPTCFiles, l \in TagSizeLimits :
          iptc = [pc |-> "block", limit |-> l, file |-> f, pos |-> 0,
                  n |-> 0, k |-> 0, size |-> 0, sized |-> FALSE]
    /\ heif = NoHEIF

\* decodeBlock up to the records: the reader is at the signature of a
\* block or it is not (errStop); the header is read; a block other than
\* 0x0404 is skipped by its data size.
decodeBlockHeader ==
    /\ iptc.pc = "block"
    /\ LET i == iptc.n + 1 IN
       IF i > Len(iptc.file) \/ iptc.pos # BlockStart(iptc.file, i)
       THEN iptc' = [iptc EXCEPT !.pc = "flush", !.pos = @ + 4]
       ELSE LET b == iptc.file[i]
                p == iptc.pos + BlockHeaderLen
            IN  iptc' = IF b.meta
                        THEN [iptc EXCEPT !.pc = "record", !.n = i, !.k = 0, !.pos = p]
                        ELSE [iptc EXCEPT !.n = i, !.pos = p + b.size]
    /\ UNCHANGED <<opts, cpc, err, w, hist, conv, buf, heif>>

\* The loop over the records of a 0x0404 block: one byte is read; when it
\* is not the marker 0x1C of a record the block returns errStop, after
\* the deferred skip of one byte when the data size is odd.  decodeRecord
\* reads type, dataset number and size, and skips the payload when
\* "recordSize > uint16(e.opts.LimitTagSize)" or when ShouldHandleTag says
\* so; else it reads it (a field of the format "string").
decodeBlockRecord ==
    /\ iptc.pc = "record"
    /\ LET b == iptc.file[iptc.n]
           j == iptc.k + 1
       IN  IF j > Len(b.recs)
           THEN iptc' = [iptc EXCEPT !.pc = "flush",
                                     !.pos = @ + 1 + (b.size % 2)]
           ELSE LET z == b.recs[j]
                    over == z > U16(iptc.limit)
                IN  iptc' = [iptc EXCEPT !.k = j, !.pos = @ + 5 + z,
                                         !.size = z, !.sized = over]
    /\ UNCHANGED <<opts, cpc, err, w, hist, conv, buf, heif>>

\* The loop over the blocks has ended with errStop: handlestringSlices.
decodeBlocksFlush ==
    /\ iptc.pc = "flush"
    /\ iptc' = [iptc EXCEPT !.pc = "done"]
    /\ UNCHANGED <<opts, cpc, err, w, hist, conv, buf, heif>>

IPTCNext ==
    \/ decodeBlockHeader
    \/ decodeBlockRecord
    \/ decodeBlocksFlush

IPTCSpec == IPTCInit /\ [][IPTCNext]_vars

----------------------------------------------------------------------------
(* The HEIF / AVIF box scan (imageDecoderHEIF.decode, steps 1 to 4), over  *)
(* the variable heif.  Here the file is kept byte by byte, since a seek    *)
(* to a declared end may land anywhere and the bytes found there are read  *)
(* as a box header.  Stream offsets and box sizes are 64 bits wide: a      *)
(* number is kept as its bit pattern, four limbs of 16 bits, most          *)
(* significant first, so that int64(size) of a uint64 is the same limbs    *)
(* read as two's complement and the sums wrap as Go's do.                  *)

Limb == 65536
HalfLimb == 32768

\* The bit pattern of a small non-negative number.
I64(n) == <<0, 0, n \div Limb, n % Limb>>

\* x + y on 64 bits, wrapping.
Add64(x, y) ==
    LET s4 == x[4] + y[4]
        s3 == x[3] + y[3] + (s4 \div Limb)
        s2 == x[2] + y[2] + (s3 \div Limb)
        s1 == x[1] + y[1] + (s2 \div Limb)
    IN  <<s1 % Limb, s2 % Limb, s3 % Limb, s4 % Limb>>

\* The sign of the pattern read as an int64.
Neg64(x) == x[1] >= HalfLimb

\* x <= y for two patterns of the same sign, limb by limb.
LessEqLimbs(x, y) ==
    \/ x[1] < y[1]
    \/ x[1] = y[1] /\ x[2] < y[2]
    \/ x[1] = y[1] /\ x[2] = y[2] /\ x[3] < y[3]
    \/ x[1] = y[1] /\ x[2] = y[2] /\ x[3] = y[3] /\ x[4] <= y[4]

\* x <= y as int64.
LessEq64(x, y) ==
    IF Neg64(x) # Neg64(y) THEN Neg64(x) ELSE LessEqLimbs(x, y)

Less64(x, y) == ~LessEq64(y, x)

\* math.MaxInt64.
MaxInt64 == <<HalfLimb - 1, Limb - 1, Limb - 1, Limb - 1>>

\* binary.BigEndian.Uint32 and Uint64 of the bytes read.
Uint32(b) == <<0, 0, b[1] * 256 + b[2], b[3] * 256 + b[4]>>
Uint64(b) == <<b[1] * 256 + b[2], b[3] * 256 + b[4],
               b[5] * 256 + b[6], b[7] * 256 + b[8]>>

\* The box types the scan tests for at the top level.
fccFtyp == <<102, 116, 121, 112>>
fccMeta == <<109, 101, 116, 97>>

\* The files.  A box is its 32-bit size, its type, the 8 bytes of the
\* extended size when the 32-bit size is 1, and zero bytes as payload.
\* The sizes declared are those of a well-formed box and: 0 (to the end of
\* the file), 4 and 7 (less than the header), and extended sizes of 0, 1, 8
\* (less than the 16 bytes of the extended header), 16, 24, 2^63 - 1 and
\* 2^64 - 8, 2^64 - 16, 2^64 - 28 (negative as int64).  No file holds a
\* pitm, iinf, iloc or iprp box: every inner box takes the switch's empty
\* default.
fccFree == <<102, 114, 101, 101>>

BE32(n) == <<n \div 16777216, (n \div 65536) % 256, (n \div 256) % 256,
             n % 256>>

BE64(n) == <<0, 0, 0, 0>> \o BE32(n)

\* The 8 bytes of 2^64 - n, for n >= 1: the complement of n - 1.
BE64Neg(n) == [i \in 1..8 |-> 255 - BE64(n - 1)[i]]

Zeros(n) == [i \in 1..n |-> 0]

BoxSizes == {0, 4, 7, 8, 12, 16, 24}
ExtSizes == {BE64(n) : n \in {0, 1, 8, 16, 24}}
            \cup {BE64Neg(n) : n \in {8, 16, 28}}
            \cup {<<127, 255, 255, 255, 255, 255, 255, 255>>}
PayloadLens == {0, 4, 8}

HEIFBoxes ==
    {BE32(z) \o t \o Zeros(p) :
        z \in BoxSizes, t \in {fccFree, fccMeta}, p \in PayloadLens}
    \cup {BE32(1) \o t \o x \o Zeros(p) :
        t \in {fccFree, fccMeta}, x \in ExtSizes, p \in PayloadLens}

\* The ftyp box: 8 bytes of header and 8 bytes of brands, declared as 16
\* bytes, as 8 bytes or as reaching the end of the file.
FtypBoxes == {BE32(z) \o fccFtyp \o Zeros(8) : z \in {0, 8, 16}}

HEIFFiles ==
    {f \o a : f \in FtypBoxes, a \in HEIFBoxes}
    \cup {f \o a \o b : f \in FtypBoxes, a \in HEIFBoxes, b \in HEIFBoxes}

\* A file that does not begin with an ftyp box is one box of the others.
NotHEIFFiles == HEIFBoxes

\* The bytes from the reader's place to the end of the file.
Avail(h) ==
    IF h.pos[1] = 0 /\ h.pos[2] = 0 /\ h.pos[3] = 0 /\ h.pos[4] <= Len(h.file)
    THEN Len(h.file) - h.pos[4]
    ELSE 0

\* readNFromRIntoBuf and readBytes: io.ReadFull of n bytes, the error
\* given to stop.  With no byte left the error is io.EOF: the first one
\* only sets isEOF (the bytes handed back are not looked at by the scan,
\* which tests isEOF first), the second one panics.  With some bytes but
\* fewer than n it is io.ErrUnexpectedEOF, and stop panics.
readN(h, n) ==
    LET a == Avail(h)
    IN  IF a >= n
        THEN [h |-> [h EXCEPT !.pos = Add64(@, I64(n))],
              b |-> SubSeq(h.file, h.pos[4] + 1, h.pos[4] + n),
              panic |-> FALSE]
        ELSE IF a = 0 /\ ~h.isEOF
        THEN [h |-> [h EXCEPT !.isEOF = TRUE], b |-> Zeros(n),
              panic |-> FALSE]
        ELSE [h |-> h, b |-> Zeros(n), panic |-> TRUE]

\* seek: Seek(pos, io.SeekStart); a negative offset is an error of the
\* reader, which stop turns into a panic.  An offset past the end is none.
seekTo(h, pos) ==
    IF Neg64(pos)
    THEN [h |-> h, panic |-> TRUE]
    ELSE [h |-> [h EXCEPT !.pos = pos], panic |-> FALSE]

\* readBox: the place before the header, the 32-bit size, the type, and
\* the 64-bit size in its place when the 32-bit size is 1.
readBox(h) ==
    LET r1 == readN(h, 4)
        r2 == readN(r1.h, 4)
        size == Uint32(r1.b)
        r3 == readN(r2.h, 8)
    IN  IF r1.panic \/ r2.panic
        THEN [h |-> h, panic |-> TRUE, startPos |-> h.pos,
              totalSize |-> size, boxType |-> r2.b]
        ELSE IF size = I64(1)
        THEN [h |-> r3.h, panic |-> r3.panic, startPos |-> h.pos,
              totalSize |-> Uint64(r3.b), boxType |-> r2.b]
        ELSE [h |-> r2.h, panic |-> FALSE, startPos |-> h.pos,
              totalSize |-> size, boxType |-> r2.b]

\* A turn of a loop has taken the scan from h0 to h1: the place the turn
\* began at is kept, and whether a turn of the same loop began there
\* before.  The scan has no other state that steers it (isEOF is FALSE
\* and metaEnd is set when a turn begins), so a turn that begins where
\* one began before is followed by the same turns again, without end.
Turn(h0, h1) ==
    [h1 EXCEPT !.heads = h0.heads \cup {<<h0.pc, h0.pos>>},
               !.again = <<h0.pc, h0.pos>> \in h0.heads]

\* decode has returned e, or has been left by the panic of stop.
HEIFDone(h, e) == [h EXCEPT !.pc = "done", !.ret = e, !.loop = "none"]

HEIFInit ==
    /\ opts = [R |-> TRUE, ImageFormat |-> "HEIF", Sources |-> {EXIF},
               LimitNumTags |-> 0, Timeout |-> 0,
               ShouldHandleTag |-> "user", HandleXMP |-> FALSE]
    /\ cpc = "start"
    /\ err = nil
    /\ w = InitW
    /\ hist = InitHist
    /\ conv = NoConv
    /\ buf = NoBuf
    /\ iptc = NoIPTC
    /\ \E f \in HEIFFiles \cup NotHEIFFiles :
          heif = [pc |-> "ftyp", file |-> f, pos |-> I64(0),
                  isEOF |-> FALSE, ret |-> "none", loop |-> "none",
                  from |-> I64(0), heads |-> {}, again |-> FALSE,
                  metaStart |-> I64(0),
                  metaSize |-> I64(0), metaEnd |-> I64(0)]

\* Step 1: the ftyp box is read and checked, and the reader is put at its
\* declared end unless the declared size is 0.
decodeFtyp ==
    /\ heif.pc = "ftyp"
    /\ LET b == readBox(heif)
           s == seekTo(b.h, Add64(b.startPos, b.totalSize))
       IN  heif' =
             IF b.panic THEN HEIFDone(b.h, "errStop")
             ELSE IF b.h.isEOF THEN HEIFDone(b.h, "errInvalidFormat")
             ELSE IF b.boxType # fccFtyp
             THEN HEIFDone(b.h, "errInvalidFormat")
             ELSE IF b.totalSize = I64(0) THEN [b.h EXCEPT !.pc = "top"]
             ELSE IF s.panic THEN HEIFDone(s.h, "errStop")
             ELSE [s.h EXCEPT !.pc = "top"]
    /\ UNCHANGED <<opts, cpc, err, w, hist, conv, buf, iptc>>

\* Step 2, one turn of the loop over the top-level boxes: the meta box
\* ends the loop, with the 4 bytes of version and flags skipped and
\* metaEnd set (step 3); any other box is left by a seek to
\* "s + int64(size)".
decodeTopLevelBox ==
    /\ heif.pc = "top"
    /\ LET b == readBox(heif)
           s == seekTo(b.h, Add64(b.startPos, b.totalSize))
       IN  heif' = Turn(heif,
             IF b.panic THEN HEIFDone(b.h, "errStop")
             ELSE IF b.h.isEOF THEN HEIFDone(b.h, "nil")
             ELSE IF b.boxType = fccMeta
             THEN [b.h EXCEPT !.pc = "inner", !.loop = "none",
                              !.pos = Add64(@, I64(4)),
                              !.metaStart = b.startPos,
                              !.metaSize = b.totalSize,
                              !.metaEnd = IF b.totalSize = I64(0)
                                          THEN MaxInt64
                                          ELSE Add64(b.startPos, b.totalSize)]
             ELSE IF b.totalSize = I64(0) THEN HEIFDone(b.h, "nil")
             ELSE IF s.panic THEN HEIFDone(s.h, "errStop")
             ELSE [s.h EXCEPT !.loop = "top", !.from = b.startPos])
    /\ UNCHANGED <<opts, cpc, err, w, hist, conv, buf, iptc>>

\* Step 4, one turn of the loop over the boxes inside meta, with its test
\* "e.pos()+8 <= metaEnd": the box is left by a seek to
\* "innerStart + int64(innerSize)".  No item is found in these files, so
\* steps 5 to 8 do nothing and decode returns nil when the loop ends.
decodeInnerBox ==
    /\ heif.pc = "inner"
    /\ LET b == readBox(heif)
           s == seekTo(b.h, Add64(b.startPos, b.totalSize))
       IN  heif' = Turn(heif,
             IF ~LessEq64(Add64(heif.pos, I64(8)), heif.metaEnd)
             THEN HEIFDone(heif, "nil")
             ELSE IF b.panic THEN HEIFDone(b.h, "errStop")
             ELSE IF b.h.isEOF THEN HEIFDone(b.h, "nil")
             ELSE IF b.totalSize = I64(0) THEN HEIFDone(b.h, "nil")
             ELSE IF s.panic THEN HEIFDone(s.h, "errStop")
             ELSE [s.h EXCEPT !.loop = "inner", !.from = b.startPos])
    /\ UNCHANGED <<opts, cpc, err, w, hist, conv, buf, iptc>>

HEIFNext ==
    \/ decodeFtyp
    \/ decodeTopLevelBox
    \/ decodeInnerBox

HEIFSpec == HEIFInit /\ [][HEIFNext]_vars

----------------------------------------------------------------------------
(* The properties. *)

\* Decode has returned, and what it returned came from the walker.
Returned == cpc = "done" /\ ~hist.timedOut

\* The mask the caller's Sources stand for: none set means EXIF, IPTC and
\* XMP; the sources the format does not support are left out.
Mask == (IF hist.mask = {} THEN {EXIF, IPTC, XMP} ELSE hist.mask)
        \cap FormatSources(opts.ImageFormat)

\* C1: within one Decode call HandleTag is invoked at most LimitNumTags
\* times, 5000 times when the option is left at zero.
C1_HandleTagAtMostLimit ==
    hist.nHandle <= (IF opts.LimitNumTags = 0 THEN defaultLimitNumTags
                     ELSE opts.LimitNumTags)

\* The limit has been reached by the calls of HandleTag, and one more tag
\* has been offered.
C1_Witness ==
    /\ hist.overflow
    /\ hist.nHandle = opts.LimitNumTags

\* C2: every tag delivered to HandleTag has a Source contained in the
\* caller's Sources mask, cut down to the sources of the format; it holds
\* all through the call, so also when Decode ends without error.
C2_DeliveredInMask == hist.delivered \subseteq Mask

\* Decode has returned nil after delivering tags of a file, under a mask
\* that leaves a source of the format out.
C2_Witness ==
    /\ Returned /\ err = nil
    /\ hist.delivered # {}
    /\ hist.mask # {}
    /\ ~(FormatSources(opts.ImageFormat) \subseteq hist.mask)

\* C3: once HandleTag has returned ErrStopWalking the walker calls no
\* callback and reads nothing more of the file, and the Decode call it
\* reports to returns nil.
C3_StopWalking ==
    hist.stopped =>
        /\ hist.afterStop \cap {"callback", "read"} = {}
        /\ Returned => err = nil

\* HandleTag has returned ErrStopWalking and Decode has returned.
C3_Witness == hist.stopped /\ Returned /\ hist.nHandle = 1

\* C4: when the timer of a Decode call with Timeout D > 0 fires before the
\* worker's result is taken, Decode returns the error "timed out after D".
C4_TimedOut ==
    hist.timedOut => cpc = "done" /\ err = ErrTimeout(opts.Timeout) /\ opts.Timeout > 0

\* The timer has fired while the worker was still walking the file.
C4_Witness == hist.timedOut /\ w.wpc = "running"

\* C5: no Decode call returns errStop.
C5_NoErrStop == cpc = "done" => err.k # errStop.k

\* The worker has recovered the stream reader's panic(errStop), and Decode
\* has taken that from the channel and returned.
C5_Witness ==
    /\ Returned
    /\ opts.Timeout > 0
    /\ w.wres = errStop

\* C6: for every input of a supported format, with all sources asked for,
\* Decode returns nil, an error for which IsInvalidFormat is true, or the
\* timeout error.  (The errors of the caller's own callbacks and reader are
\* not errors of the input.)
C6_NilInvalidFormatOrTimeout ==
    (/\ cpc = "done"
     /\ opts.R /\ opts.ImageFormat \in Walkers
     /\ hist.mask = AllSources
     /\ err \notin {ErrUser, ErrExpectedEOF, ErrIO})
    => \/ err = nil
       \/ IsInvalidFormat(err)
       \/ err = ErrTimeout(opts.Timeout)

\* C7: when a read of the file has failed with "unexpected EOF", Decode
\* returns an error for which IsInvalidFormat is true.
C7_TruncatedIsInvalidFormat ==
    (Returned /\ w.readErr = ErrUnexpectedEOF) => IsInvalidFormat(err)

\* C8: when the caller's reader has failed with an error other than the
\* end of the file, Decode returns that error.
C8_IOErrorAsIs ==
    (Returned /\ (w.readErr = ErrIO \/ w.wres = ErrIO)) => err = ErrIO

\* C9: when more tags are offered than LimitNumTags the walker ends, and
\* the Decode call it reports to returns nil, with a timeout set or not.
C9_OverflowIsSuccess ==
    hist.overflow =>
        /\ w.wpc # "running"
        /\ Returned => err = nil

\* The tag count has passed the limit in a worker, and Decode has taken the
\* worker's result and returned.
C9_Witness ==
    /\ hist.overflow
    /\ Returned
    /\ opts.Timeout > 0
    /\ w.wres = ErrStopWalking

\* C10: once Decode has returned the timeout error the worker calls no
\* callback and does not read or seek on the caller's reader.
C10_TimeoutAbortsWorker == hist.timedOut => hist.late = {}

\* C12: two Decode calls with identical options on the same input produce
\* the same callback sequence.  Every choice of the walker but one is drawn
\* from the input or from what the callbacks return; the one left is the
\* order in which handlestringSlices ranges over its map.  The sequence is
\* the same in every run iff that range never has more than one key to
\* choose from.
C12_SameCallbackSequence ==
    (w.stack # <<>> /\ w.stack[Len(w.stack)].pc = "flush")
        => Cardinality(w.stringSlices) <= 1

\* C13: within each source, the tags are delivered to the callback in the
\* order in which they appear in the file: no tag is delivered after a tag
\* of the same source and the same pass that stands later in the file.
C13_PhysicalOrder == ~hist.disorder

\* C11: with a timeout set, the walker's state is owned by the worker: the
\* worker writes no variable (Decode's result and the stream reader's error
\* included) that Decode's task reads or writes, unless a send and its
\* receive on errc order the two accesses.
C11_WorkerOwnsState == ~hist.race

\* C14: for a JPEG with a valid APP1/XMP segment and a custom XMP handler
\* that returns nil, Decode returns success if the handler has read the
\* packet to its end (stated for the calls that ask for XMP alone: with
\* more sources the result depends on the other segments too; with any
\* sources the result is not "expected EOF after XMP"), and returns
\* "expected EOF after XMP" if at least one byte of the packet was left
\* unread by the handler.
C14_CustomXMPHandler ==
    (Returned /\ opts.ImageFormat = "JPEG" /\ opts.HandleXMP) =>
        /\ hist.xmp = "all" => /\ err # ErrExpectedEOF
                               /\ opts.Sources = {XMP} => err = nil
        /\ hist.xmp \in {"part", "lost"} => err = ErrExpectedEOF

\* C15: every EXIF rational element whose denominator is zero, of the
\* unsigned and of the signed type, is decoded to the literal "undef".
C15_ZeroDenominatorIsUndef ==
    (conv.pc = "value" /\ conv.den = 0) => conv.val = undef

\* x > 0 for x of type T; the rational r times k is the pair (num, den).
Positive(T, x) == IF T = "int32" THEN x > 0 ELSE x # 0
Multiple(T, num, den, r) ==
    LET k == Quo(T, den, r.den) IN
    /\ Rem(T, den, r.den) = 0
    /\ IF r.num = 0 THEN num = 0
       ELSE Rem(T, num, r.num) = 0 /\ Quo(T, num, r.num) = k

\* C16: for every (num, den) with den # 0 of the element type, NewRat
\* returns no error and a rational in canonical form, denominator > 0 and
\* gcd(|numerator|, denominator) = 1, with the value and the sign of
\* num/den: (num, den) is the rational's pair times a factor.
C16_NewRatCanonical ==
    (conv.pc \in {"rat", "failed"} /\ conv.den # 0) =>
        /\ conv.pc = "rat"
        /\ Positive(conv.T, conv.rat.den)
        /\ gcd("uint32", IF IsNeg(conv.T, conv.rat.num) THEN Neg(conv.rat.num)
                         ELSE conv.rat.num, conv.rat.den) = 1
        /\ Multiple(conv.T, conv.num, conv.den, conv.rat)

\* C17: the text of every rational that can be constructed is parsed back
\* to a rational equal to it.
C17_TextRoundTrip ==
    conv.pc = "parsed" => conv.err = nil /\ conv.back = conv.rat
\* C18: within one EXIF pass each IFD kind that a pointer tag names is
\* entered at most once, whatever sequence of pointers the input holds.
C18_IFDEnteredOnce == \A k \in IFDPointers : hist.ifds[k] # "twice"

\* An IFD kind was entered and a later pointer to it was left alone.
C18_Witness == w.left # "none" /\ hist.ifds[w.left] = "entered"

\* C19: when decodeTag is done with an entry the reader is exactly 12 bytes
\* after the start of that entry.
C19_CursorAfterEntry == w.cursor \in {0, 12}

OversizeSkippedBelowEXIF == w.over # "exif"

\* C21: a sub-stream of a negative length or of more than 10 MiB is
\* rejected, so that no buffer ever holds more than 10 MiB.
C21_SubStreamAtMost10MiB ==
    /\ buf.pc \in {"open", "failed", "closed"} /\ buf.length < 0 => buf.pc = "failed"
    /\ buf.pc # "none" => buf.held <= 10 * 1024 * 1024

\* C22: when bufferedReader has failed, and when the caller is done with
\* the sub-stream, the buffer is back in the pool.
C22_BufferReturned == buf.pc \in {"failed", "closed"} => buf.out = 0

\* C23: in the JPEG and HEIF walkers an errStop raised inside the EXIF
\* decoder does not end the walk (the segments that follow are still read).
C23_EXIFStopIsContained ==
    opts.ImageFormat \in {"JPEG", "HEIF"} => hist.stopIn # "exif"

\* C24: in the JPEG walker the APP1 segment that holds the XMP packet goes
\* to the XMP decoder whenever XMP is asked for and not yet handled; it is
\* never taken for the EXIF segment.
C24_XMPSegmentNotTakenAsEXIF == opts.ImageFormat = "JPEG" => ~hist.xmpAsEXIF

\* C25: when the IPTC parser reads the signature of the next block it has
\* consumed the data of the block before and, where the data size was odd,
\* exactly one padding byte.
C25_PaddingConsumed ==
    (iptc.pc = "block" /\ iptc.n > 0) => iptc.pos = BlockEnd(iptc.file, iptc.n)

\* C30: an IPTC record is skipped by the size test only if its payload is
\* longer than LimitTagSize.
C30_SkippedOnlyIfOverLimit ==
    (iptc.pc # "none" /\ iptc.sized) => iptc.size > iptc.limit

\* C26: once the WebP walker has read a VP8X chunk whose EXIF flag is
\* clear, the EXIF decoder is not at work, whatever chunks follow (EXIF
\* tags are delivered by the EXIF decoder only).
C26_NoEXIFAfterClearFlag ==
    w.noEXIF => \A i \in 1..Len(w.stack) : w.stack[i].f \notin {"exif", "ifd"}

\* A chunk that follows such a VP8X chunk has been dispatched while EXIF
\* was asked for.
C26_Witness ==
    /\ w.noEXIF /\ w.wpc = "running" /\ w.chunks >= 2
    /\ EXIF \in opts.Sources

C28_WorkerSendsOnceUnblocked ==
    /\ hist.sent <= 1
    /\ (opts.Timeout > 0 /\ w.wpc \in {"returned", "panicked"}) =>
           Len(w.errc) + Len(workerSends(w)) <= 1

\* The worker, abandoned by a Decode that timed out, has sent its value
\* and ended.
C28_Witness ==
    hist.timedOut /\ cpc = "done" /\ w.wpc = "exited" /\ hist.sent = 1 /\ Len(w.errc) = 1

\* C29: with no timeout set the HEIF / AVIF box scan comes to an end on
\* every file, whatever sizes its boxes declare: no turn of the loop over
\* the top-level boxes or of the loop over the boxes inside meta begins at
\* a place where a turn of that loop began before.
C29_ScanTerminates == ~heif.again

\* What is to give that end: every turn of the two loops that goes on to a
\* next turn leaves the reader strictly after the place it began at.
ScanMovesForward ==
    heif.loop # "none" => Less64(heif.from, heif.pos)

====================================================================
